---- MODULE Spec2Model ----
(***************************************************************************)
(* goreplace (main.go): strip the "replace" directives of a go.mod file,   *)
(* then append one directive per rule of a YAML configuration whose find   *)
(* string occurs in a line of the file.                                    *)
(*                                                                         *)
(* Text (file contents, lines, find and replace strings, the logged error) *)
(* is a sequence of one-character strings; LF and CR name the bytes 0x0A   *)
(* and 0x0D.  Each file mutation is modelled call by call, so that the     *)
(* states between the calls (an I/O failure, a kill) are states of the     *)
(* model.                                                                  *)
(***************************************************************************)
EXTENDS Integers, Sequences, FiniteSets

\* ------------------------------------------------------------------ bounds
MaxPieces == 2
MaxRules == 2
MaxRuns == 2

\* -------------------------------------------------------------------- text
LF == "LF"
CR == "CR"

RECURSIVE Cat(_)
\* concatenation of a sequence of texts
Cat(ts) == IF ts = <<>> THEN <<>> ELSE Head(ts) \o Cat(Tail(ts))

\* the literal "replace" of strings.HasPrefix(line, "replace") and of the Sprintf format
REPLACE == <<"r", "e", "p", "l", "a", "c", "e">>

\* strings.HasPrefix
HasPrefix(s, prefix) ==
    /\ Len(s) >= Len(prefix)
    /\ SubSeq(s, 1, Len(prefix)) = prefix

\* strings.Contains
Contains(s, substr) ==
    \E i \in 0..(Len(s) - Len(substr)) : SubSeq(s, i + 1, i + Len(substr)) = substr

\* bytes.IndexByte, 1-based; 0 when c does not occur
IndexByte(data, c) ==
    IF \E i \in 1..Len(data) : data[i] = c
    THEN CHOOSE i \in 1..Len(data) : data[i] = c /\ \A j \in 1..(i - 1) : data[j] # c
    ELSE 0

\* bufio.dropCR: one trailing carriage return is dropped
dropCR(data) ==
    IF Len(data) > 0 /\ data[Len(data)] = CR THEN SubSeq(data, 1, Len(data) - 1) ELSE data

\* bufio.ScanLines on the unread rest of a file (data # <<>>): the token is the
\* text up to the first LF, or up to the end of the file, without one trailing CR
ScanLines(data) ==
    LET i == IndexByte(data, LF) IN
    IF i > 0
    THEN [token |-> dropCR(SubSeq(data, 1, i - 1)), rest |-> SubSeq(data, i + 1, Len(data))]
    ELSE [token |-> dropCR(data), rest |-> <<>>]

RECURSIVE Lines(_)
\* the tokens a bufio.Scanner with the default split function yields for a file
Lines(content) ==
    IF content = <<>> THEN <<>>
    ELSE LET t == ScanLines(content) IN <<t.token>> \o Lines(t.rest)

\* fmt.Sprintf("replace %s => %s\n", cmd.Find, cmd.Replace)
Sprintf(cmd) ==
    REPLACE \o <<" ">> \o cmd.Find \o <<" ", "=", ">", " ">> \o cmd.Replace \o <<LF>>

\* ------------------------------------------------------------------ inputs
Pieces ==
    { <<"a", LF>>, <<"b">>, REPLACE \o <<" ", "a", LF>>, <<CR>>, <<LF>> }

\* the go.mod files of the model: up to MaxPieces pieces, concatenated
Manifests ==
    { Cat(ps) : ps \in UNION { [1..n -> Pieces] : n \in 0..MaxPieces } }

Paths == { <<"x">>, <<"y">> }

\* what os.Stat finds at a path: a directory, another kind of file, nothing
\* (an error for which os.IsNotExist holds), or an error of another kind
Kinds == { "dir", "file", "missing", "denied" }

\* FindReplace
RuleVocab ==
    { [Find |-> <<"a">>, Replace |-> <<"x">>], [Find |-> <<"b">>, Replace |-> <<"y">>] }

RuleSeqs == UNION { [1..n -> RuleVocab] : n \in 0..MaxRules }

\* the configuration file: a YAML list of rules, or absent, or not a YAML list
Configs ==
    { [status |-> "ok", rules |-> rs] : rs \in RuleSeqs }
        \cup { [status |-> s, rules |-> <<>>] : s \in {"missing", "malformed"} }

Steps == <<"strip", "load", "match", "validate", "append">>

NoTemp == [exists |-> FALSE, data |-> <<>>]

VARIABLES
    manifest,        \* content of the file at *goModPath
    config,          \* the file at *goModConfigPath
    fs,              \* what os.Stat has found at each path ("unknown": not asked yet)
    clean,           \* *clean
    pc,              \* position in main and the function it is in
    temp,            \* the temporary file of the running mutation
    scanner,         \* what the bufio.Scanner has not read yet
    find,            \* main's find
    found,           \* findMatchesInFile's found
    replace,         \* main's replace
    originalContent, \* appendModReplace's originalContent
    idx,             \* position of appendModReplace's range loop
    exit,            \* "running", or how the process ended
    failed,          \* the step whose error main passed to log.Fatal
    logged,          \* the text of validateLocalReposExist's error
    run,             \* which invocation this is
    runInput,        \* the manifest when this invocation started
    prevExit,        \* how the previous invocation ended
    executed,        \* the steps main has called in this invocation
    renames          \* successful os.Rename calls of this invocation

vars ==
    << manifest, config, fs, clean, pc, temp, scanner, find, found, replace,
       originalContent, idx, exit, failed, logged, run, runInput, prevExit,
       executed, renames >>

env == << config, fs, clean, run, runInput, prevExit >>

Init ==
    /\ manifest \in Manifests
    /\ config \in Configs
    /\ fs = [p \in Paths |-> "unknown"]
    /\ clean \in BOOLEAN
    /\ pc = "strip_open"
    /\ temp = NoTemp
    /\ scanner = <<>>
    /\ find = <<>>
    /\ found = <<>>
    /\ replace = <<>>
    /\ originalContent = <<>>
    /\ idx = 1
    /\ exit = "running"
    /\ failed = "none"
    /\ logged = <<>>
    /\ run = 1
    /\ runInput = manifest
    /\ prevExit = "none"
    /\ executed = {}
    /\ renames = 0

\* log.Fatal(err) in main: the deferred Close and Remove of the failing function
\* have run, the process exits with status 1
Fatal(step) ==
    /\ pc' = "exited"
    /\ exit' = "1"
    /\ failed' = step
    /\ temp' = NoTemp
    /\ scanner' = <<>>

\* ------------------------------------------------- deleteLinesWithReplace
StripOpen ==
    /\ pc = "strip_open"
    /\ executed' = executed \cup {"strip"}
    /\ \/ /\ pc' = "strip_temp"
          /\ scanner' = manifest
          /\ UNCHANGED << temp, exit, failed >>
       \/ Fatal("strip")
    /\ UNCHANGED << manifest, find, found, replace, originalContent, idx, logged,
                    renames, env >>

StripCreateTemp ==
    /\ pc = "strip_temp"
    /\ \/ /\ pc' = "strip_scan"
          /\ temp' = [exists |-> TRUE, data |-> <<>>]
          /\ UNCHANGED << scanner, exit, failed >>
       \/ Fatal("strip")
    /\ UNCHANGED << manifest, find, found, replace, originalContent, idx, logged,
                    executed, renames, env >>

StripScan ==
    /\ pc = "strip_scan"
    /\ \/ /\ scanner # <<>>
          /\ LET t == ScanLines(scanner) IN
             /\ scanner' = t.rest
             /\ temp' = IF HasPrefix(t.token, REPLACE)
                        THEN temp
                        ELSE [temp EXCEPT !.data = @ \o t.token \o <<LF>>]
          /\ UNCHANGED << pc, exit, failed >>
       \/ /\ scanner = <<>>
          /\ pc' = "strip_close"
          /\ UNCHANGED << scanner, temp, exit, failed >>
       \/ Fatal("strip")
    /\ UNCHANGED << manifest, find, found, replace, originalContent, idx, logged,
                    executed, renames, env >>

StripClose ==
    /\ pc = "strip_close"
    /\ \/ /\ pc' = "strip_rename"
          /\ UNCHANGED << temp, scanner, exit, failed >>
       \/ Fatal("strip")
    /\ UNCHANGED << manifest, find, found, replace, originalContent, idx, logged,
                    executed, renames, env >>

StripRename ==
    /\ pc = "strip_rename"
    /\ \/ /\ manifest' = temp.data
          /\ renames' = renames + 1
          /\ pc' = "check_clean"
          /\ temp' = NoTemp
          /\ UNCHANGED << scanner, exit, failed >>
       \/ /\ Fatal("strip")
          /\ UNCHANGED << manifest, renames >>
    /\ UNCHANGED << find, found, replace, originalContent, idx, logged, executed, env >>

\* CheckClean with the flag ignored
CheckClean_Ignored ==
    /\ pc = "check_clean"
    /\ pc' = "load"
    /\ UNCHANGED << manifest, temp, scanner, find, found, replace, originalContent,
                    idx, exit, failed, logged, executed, renames, env >>

CheckClean ==
    /\ pc = "check_clean"
    /\ IF clean
       THEN /\ pc' = "exited"
            /\ exit' = "0"
       ELSE /\ pc' = "load"
            /\ UNCHANGED exit
    /\ UNCHANGED << manifest, temp, scanner, find, found, replace, originalContent,
                    idx, failed, logged, executed, renames, env >>

\* ----------------------------------------------------------- readYamlConfig
ReadYamlConfig ==
    /\ pc = "load"
    /\ executed' = executed \cup {"load"}
    /\ \/ /\ config.status = "ok"
          /\ find' = config.rules
          /\ pc' = "match_open"
          /\ UNCHANGED << temp, scanner, exit, failed >>
       \/ /\ Fatal("load")
          /\ UNCHANGED find
    /\ UNCHANGED << manifest, found, replace, originalContent, idx, logged, renames, env >>

\* -------------------------------------------------------- findMatchesInFile
RECURSIVE MatchLine_FirstHit(_, _)
\* MatchLine with a break after the first hit
MatchLine_FirstHit(line, cmds) ==
    IF cmds = <<>> THEN <<>>
    ELSE IF Contains(line, Head(cmds).Find) THEN <<Head(cmds)>>
    ELSE MatchLine_FirstHit(line, Tail(cmds))

RECURSIVE MatchLine_Backwards(_, _)
\* MatchLine with the rules ranged over from the last to the first
MatchLine_Backwards(line, cmds) ==
    IF cmds = <<>> THEN <<>>
    ELSE MatchLine_Backwards(line, Tail(cmds))
             \o (IF Contains(line, Head(cmds).Find) THEN <<Head(cmds)>> ELSE <<>>)

RECURSIVE MatchLine(_, _)
\* the inner loop: the rules of cmds whose Find the line contains, in order
MatchLine(line, cmds) ==
    IF cmds = <<>> THEN <<>>
    ELSE (IF Contains(line, Head(cmds).Find) THEN <<Head(cmds)>> ELSE <<>>)
             \o MatchLine(line, Tail(cmds))

MatchOpen ==
    /\ pc = "match_open"
    /\ executed' = executed \cup {"match"}
    /\ \/ /\ scanner' = manifest
          /\ found' = <<>>
          /\ pc' = "match_scan"
          /\ UNCHANGED << temp, exit, failed >>
       \/ /\ Fatal("match")
          /\ UNCHANGED found
    /\ UNCHANGED << manifest, find, replace, originalContent, idx, logged, renames, env >>

MatchScan ==
    /\ pc = "match_scan"
    /\ \/ /\ scanner # <<>>
          /\ LET t == ScanLines(scanner) IN
             /\ scanner' = t.rest
             /\ found' = found \o MatchLine(t.token, find)
          /\ UNCHANGED << pc, replace, temp, exit, failed >>
       \/ /\ scanner = <<>>
          /\ replace' = found
          /\ pc' = "validate"
          /\ UNCHANGED << scanner, found, temp, exit, failed >>
       \/ /\ Fatal("match")
          /\ UNCHANGED << found, replace >>
    /\ UNCHANGED << manifest, find, originalContent, idx, logged, executed, renames, env >>

\* -------------------------------------------------- validateLocalReposExist
\* (*fs.PathError).Error() of a failed os.Stat
PathError(path) ==
    <<"s", "t", "a", "t", " ">> \o path
        \o <<":", " ", "p", "e", "r", "m", "i", "s", "s", "i", "o", "n", " ",
             "d", "e", "n", "i", "e", "d">>

\* dirExists on a path at which os.Stat finds kind
dirExists(path, kind) ==
    CASE kind = "missing" -> [exists |-> FALSE, err |-> <<>>]
      [] kind = "denied" -> [exists |-> FALSE, err |-> PathError(path)]
      [] OTHER -> [exists |-> kind = "dir", err |-> <<>>]

RECURSIVE Missing_FirstOnly(_, _)
\* Missing with a return at the first failure
Missing_FirstOnly(cmds, stat) ==
    IF cmds = <<>> THEN <<>>
    ELSE LET cmd == Head(cmds)
             r == dirExists(cmd.Replace, stat[cmd.Replace])
         IN  IF r.err # <<>> THEN <<r.err>>
             ELSE IF ~r.exists THEN <<cmd.Replace>>
             ELSE Missing_FirstOnly(Tail(cmds), stat)

RECURSIVE Missing(_, _)
\* the loop of validateLocalReposExist: the entries of missing
Missing(cmds, stat) ==
    IF cmds = <<>> THEN <<>>
    ELSE LET cmd == Head(cmds)
             r == dirExists(cmd.Replace, stat[cmd.Replace])
         IN  (IF r.err # <<>> THEN <<r.err>>
              ELSE IF ~r.exists THEN <<cmd.Replace>>
              ELSE <<>>) \o Missing(Tail(cmds), stat)

RECURSIVE Join(_, _)
\* strings.Join
Join(elems, sep) ==
    IF elems = <<>> THEN <<>>
    ELSE IF Len(elems) = 1 THEN elems[1]
    ELSE Head(elems) \o sep \o Join(Tail(elems), sep)

\* fmt.Errorf("replace module error(s) or missing:\n%s", combinedMissingStr)
Errorf(combinedMissingStr) ==
    REPLACE \o <<" ", "m", "o", "d", "u", "l", "e", " ", "e", "r", "r", "o", "r",
                 "(", "s", ")", " ", "o", "r", " ", "m", "i", "s", "s", "i", "n",
                 "g", ":", LF>> \o combinedMissingStr

\* the paths the loop passes to os.Stat
Stated(cmds) == { cmds[i].Replace : i \in DOMAIN cmds }

\* ValidateLocalReposExist whose error main logs without exiting
ValidateLocalReposExist_LogOnly ==
    /\ pc = "validate"
    /\ executed' = executed \cup {"validate"}
    /\ \E stat \in [Paths -> Kinds \cup {"unknown"}] :
          /\ \A p \in Paths :
                IF fs[p] # "unknown" THEN stat[p] = fs[p]
                ELSE stat[p] = "unknown" <=> p \notin Stated(replace)
          /\ fs' = stat
          /\ LET missing == Missing(replace, stat) IN
             /\ pc' = "append_read"
             /\ logged' = IF Len(missing) # 0 THEN Errorf(Join(missing, <<LF>>)) ELSE logged
             /\ failed' = IF Len(missing) # 0 THEN "validate" ELSE failed
             /\ UNCHANGED << temp, scanner, exit >>
    /\ UNCHANGED << manifest, config, clean, run, runInput, prevExit, find, found,
                    replace, originalContent, idx, renames >>

ValidateLocalReposExist ==
    /\ pc = "validate"
    /\ executed' = executed \cup {"validate"}
    /\ \E stat \in [Paths -> Kinds \cup {"unknown"}] :
          /\ \A p \in Paths :
                IF fs[p] # "unknown" THEN stat[p] = fs[p]
                ELSE stat[p] = "unknown" <=> p \notin Stated(replace)
          /\ fs' = stat
          /\ LET missing == Missing(replace, stat) IN
             IF Len(missing) # 0
             THEN /\ logged' = Errorf(Join(missing, <<LF>>))
                  /\ Fatal("validate")
             ELSE /\ pc' = "append_read"
                  /\ UNCHANGED << logged, temp, scanner, exit, failed >>
    /\ UNCHANGED << manifest, config, clean, run, runInput, prevExit, find, found,
                    replace, originalContent, idx, renames >>

\* --------------------------------------------------------- appendModReplace
AppendReadFile ==
    /\ pc = "append_read"
    /\ executed' = executed \cup {"append"}
    /\ \/ /\ originalContent' = manifest
          /\ pc' = "append_temp"
          /\ UNCHANGED << temp, scanner, exit, failed >>
       \/ /\ Fatal("append")
          /\ UNCHANGED originalContent
    /\ UNCHANGED << manifest, find, found, replace, idx, logged, renames, env >>

AppendCreateTemp ==
    /\ pc = "append_temp"
    /\ \/ /\ temp' = [exists |-> TRUE, data |-> <<>>]
          /\ pc' = "append_write"
          /\ UNCHANGED << scanner, exit, failed >>
       \/ Fatal("append")
    /\ UNCHANGED << manifest, find, found, replace, originalContent, idx, logged,
                    executed, renames, env >>

AppendWriteOriginal ==
    /\ pc = "append_write"
    /\ \/ /\ temp' = [temp EXCEPT !.data = @ \o originalContent]
          /\ idx' = 1
          /\ pc' = "append_loop"
          /\ UNCHANGED << scanner, exit, failed >>
       \/ /\ Fatal("append")
          /\ UNCHANGED idx
    /\ UNCHANGED << manifest, find, found, replace, originalContent, logged,
                    executed, renames, env >>

\* AppendWriteDirective writing to the manifest itself instead of the temporary file
AppendWriteDirective_InPlace ==
    /\ pc = "append_loop"
    /\ idx <= Len(replace)
    /\ \/ /\ manifest' = manifest \o Sprintf(replace[idx])
          /\ idx' = idx + 1
          /\ UNCHANGED << pc, temp, scanner, exit, failed >>
       \/ /\ Fatal("append")
          /\ UNCHANGED << idx, manifest >>
    /\ UNCHANGED << find, found, replace, originalContent, logged,
                    executed, renames, env >>

AppendWriteDirective ==
    /\ pc = "append_loop"
    /\ idx <= Len(replace)
    /\ \/ /\ temp' = [temp EXCEPT !.data = @ \o Sprintf(replace[idx])]
          /\ idx' = idx + 1
          /\ UNCHANGED << pc, scanner, exit, failed >>
       \/ /\ Fatal("append")
          /\ UNCHANGED idx
    /\ UNCHANGED << manifest, find, found, replace, originalContent, logged,
                    executed, renames, env >>

AppendClose ==
    /\ pc = "append_loop"
    /\ idx > Len(replace)
    /\ \/ /\ pc' = "append_rename"
          /\ UNCHANGED << temp, scanner, exit, failed >>
       \/ Fatal("append")
    /\ UNCHANGED << manifest, find, found, replace, originalContent, idx, logged,
                    executed, renames, env >>

AppendRename ==
    /\ pc = "append_rename"
    /\ \/ /\ manifest' = temp.data
          /\ renames' = renames + 1
          /\ pc' = "exited"
          /\ exit' = "0"
          /\ temp' = NoTemp
          /\ UNCHANGED << scanner, failed >>
       \/ /\ Fatal("append")
          /\ UNCHANGED << manifest, renames >>
    /\ UNCHANGED << find, found, replace, originalContent, idx, logged, executed, env >>

\* ------------------------------------------------------------- the process
\* the process is killed (or the machine stops) between two calls: nothing
\* deferred runs, the files stay as they are
Crash ==
    /\ pc \notin {"exited", "crashed"}
    /\ pc' = "crashed"
    /\ exit' = "killed"
    /\ UNCHANGED << manifest, temp, scanner, find, found, replace, originalContent,
                    idx, failed, logged, executed, renames, env >>

\* the program is invoked again with the same flags, configuration and directories
Rerun ==
    /\ pc \in {"exited", "crashed"}
    /\ run < MaxRuns
    /\ run' = run + 1
    /\ runInput' = manifest
    /\ prevExit' = exit
    /\ pc' = "strip_open"
    /\ temp' = NoTemp
    /\ scanner' = <<>>
    /\ find' = <<>>
    /\ found' = <<>>
    /\ replace' = <<>>
    /\ originalContent' = <<>>
    /\ idx' = 1
    /\ exit' = "running"
    /\ failed' = "none"
    /\ logged' = <<>>
    /\ executed' = {}
    /\ renames' = 0
    /\ UNCHANGED << manifest, config, fs, clean >>

Next ==
    \/ StripOpen
    \/ StripCreateTemp
    \/ StripScan
    \/ StripClose
    \/ StripRename
    \/ CheckClean
    \/ ReadYamlConfig
    \/ MatchOpen
    \/ MatchScan
    \/ ValidateLocalReposExist
    \/ AppendReadFile
    \/ AppendCreateTemp
    \/ AppendWriteOriginal
    \/ AppendWriteDirective
    \/ AppendClose
    \/ AppendRename
    \/ Crash
    \/ Rerun

Spec == Init /\ [][Next]_vars

\* ============================================================== properties
NotDirective(line) == ~HasPrefix(line, REPLACE)

\* the lines of a file that do not start with "replace"
KeptLines(content) == SelectSeq(Lines(content), NotDirective)

RECURSIVE Unlines(_)
\* each line followed by one LF
Unlines(ls) == IF ls = <<>> THEN <<>> ELSE Head(ls) \o <<LF>> \o Unlines(Tail(ls))

\* the file the stripper leaves
StripResult(content) == Unlines(KeptLines(content))

\* the text of a directive, without its line terminator
DirectiveLine(cmd) ==
    REPLACE \o <<" ">> \o cmd.Find \o <<" ", "=", ">", " ">> \o cmd.Replace

RECURSIVE DirectiveLines(_)
DirectiveLines(cmds) ==
    IF cmds = <<>> THEN <<>> ELSE <<DirectiveLine(Head(cmds))>> \o DirectiveLines(Tail(cmds))

\* the file the appender leaves
AppendResult(content, cmds) == content \o Unlines(DirectiveLines(cmds))

\* findMatchesInFile has returned its match set to main
MatchDone == pc = "validate" \/ "validate" \in executed

\* validateLocalReposExist has returned
ValidateDone == "validate" \in executed

RanOk == pc = "exited" /\ exit = "0"

\* (line, rule) pairs such that the line contains the rule's find string
Hits(ls, cmds) ==
    { h \in (DOMAIN ls) \X (DOMAIN cmds) : Contains(ls[h[1]], cmds[h[2]].Find) }

\* line-major order
Before(g, h) == g[1] < h[1] \/ (g[1] = h[1] /\ g[2] < h[2])

Rank(h, H) == 1 + Cardinality({ g \in H : Before(g, h) })

RECURSIVE IsSubseq(_, _)
\* s is a subsequence of t
IsSubseq(s, t) ==
    IF s = <<>> THEN TRUE
    ELSE IF t = <<>> THEN FALSE
    ELSE IF Head(s) = Head(t) THEN IsSubseq(Tail(s), Tail(t))
    ELSE IsSubseq(s, Tail(t))

RECURSIVE Pick(_, _, _)
\* the elements of s at the positions of S from i on, in the order of s
Pick(s, S, i) ==
    IF i > Len(s) THEN <<>>
    ELSE (IF i \in S THEN <<s[i]>> ELSE <<>>) \o Pick(s, S, i + 1)

\* how often sub occurs in text
Occurrences(text, sub) ==
    Cardinality({ i \in 0..(Len(text) - Len(sub)) : SubSeq(text, i + 1, i + Len(sub)) = sub })

\* the match-set entries whose replace path is not an existing directory
Offending == { i \in DOMAIN replace : fs[replace[i].Replace] # "dir" }

StepsThrough(s) ==
    { Steps[i] : i \in { k \in DOMAIN Steps : \E n \in DOMAIN Steps : Steps[n] = s /\ k <= n } }

HasLineBreak(text) == \E i \in DOMAIN text : text[i] \in {LF, CR}

\* C1: after a successful non-clean run the manifest consists of the original
\* lines that do not start with "replace", verbatim and in order, followed by
\* one line "replace <find> => <replace>" per match-set entry, in match-set
\* order, and nothing else.
C1_AppendIsAdditive ==
    (RanOk /\ ~clean) =>
        Lines(manifest) = KeptLines(runInput) \o DirectiveLines(replace)

\* C2: after deleteLinesWithReplace succeeds no line of the manifest starts with
\* "replace", and the lines of the manifest are exactly the original lines that
\* did not start with "replace", in their original order.
C2_StripKeepsOtherLines ==
    (renames = 1) =>
        /\ \A i \in DOMAIN Lines(manifest) : NotDirective(Lines(manifest)[i])
        /\ Lines(manifest) = KeptLines(runInput)

\* C3: stripping twice in succession leaves the manifest with the same content
\* as stripping once.
C3_StripIdempotent ==
    (clean /\ run >= 2 /\ prevExit = "0" /\ RanOk) => manifest = runInput

\* C4: the match set holds each rule once per line of the post-strip manifest
\* that contains the rule's find string, in line-major order (lines in file
\* order, within a line the rules in configuration order); no line of that
\* manifest is an old replace directive.
C4_MatchSet ==
    (MatchDone /\ renames = 1) =>
        LET ls == Lines(manifest)
            H == Hits(ls, find)
        IN  /\ Len(replace) = Cardinality(H)
            /\ \A h \in H : replace[Rank(h, H)] = find[h[2]]
            /\ \A i \in DOMAIN ls : NotDirective(ls[i])

\* a rule is hit on two lines, another rule on none
C4_Witness ==
    /\ MatchDone /\ renames = 1
    /\ \E g, h \in Hits(Lines(manifest), find) : g[1] # h[1] /\ g[2] = h[2]
    /\ \E j \in DOMAIN find : \A h \in Hits(Lines(manifest), find) : h[2] # j

\* C5 as stated: the match set is a subsequence of the configured rule sequence.
C5_ConfigOrder == MatchDone => IsSubseq(replace, find)

\* C5 amended: the hits of one manifest line enter the match set in
\* configuration order (they are a subsequence of the rule sequence); the hits
\* of a later line follow those of an earlier line whatever their rules are.
C5_LineHitsInConfigOrder ==
    [][(pc = "match_scan" /\ pc' = "match_scan") =>
          \E S \in SUBSET (DOMAIN find) : found' = found \o Pick(find, S, 1)]_vars

\* the match set holds a later rule before an earlier one
C5_Witness ==
    /\ MatchDone
    /\ Len(replace) >= 2
    /\ ~IsSubseq(replace, find)
    /\ Len(find) >= 2

\* C6: validateLocalReposExist fails iff some match-set entry's replace path is
\* not an existing directory (missing, not a directory, not inspectable); the
\* error text names each offending path once per offending entry; an empty match
\* set passes.
C6_Validation ==
    ValidateDone =>
        /\ (failed = "validate") <=> (Offending # {})
        /\ failed = "validate" =>
              \A i \in Offending :
                 Occurrences(logged, replace[i].Replace)
                    = Cardinality({ j \in Offending : replace[j].Replace = replace[i].Replace })
        /\ replace = <<>> => failed # "validate"

\* two offending entries of different kinds, the first of them uninspectable
C6_Witness ==
    /\ ValidateDone
    /\ failed = "validate"
    /\ \E i, j \in Offending :
          /\ i < j
          /\ fs[replace[i].Replace] = "denied"
          /\ fs[replace[j].Replace] \in {"missing", "file"}

\* C7: the steps run in the order strip, load, match, validate, append; a
\* failing step ends the process with status 1 and no later step has run; after
\* a failure of load, match or validate the manifest is the post-strip file.
C7_FailFast ==
    /\ \E s \in {"none"} \cup StepsThrough("append") :
          executed = IF s = "none" THEN {} ELSE StepsThrough(s)
    /\ failed # "none" =>
          /\ pc = "exited"
          /\ exit = "1"
          /\ executed = StepsThrough(failed)
    /\ exit = "1" => failed # "none"
    /\ failed \in {"load", "match", "validate"} =>
          /\ renames = 1
          /\ manifest = StripResult(runInput)

\* validation failed on a manifest that had an old directive
C7_Witness ==
    /\ failed = "validate"
    /\ manifest # runInput
    /\ \E i \in DOMAIN Lines(runInput) : ~NotDirective(Lines(runInput)[i])

\* C8: with -clean the program only strips: it never calls the loader, the
\* matcher, the validator or the appender, whatever the configuration file is,
\* and once the strip has succeeded it exits with status 0, the manifest being
\* the original without its lines that start with "replace".
C8_CleanMode ==
    clean =>
        /\ executed \subseteq {"strip"}
        /\ renames <= 1
        /\ renames = 1 =>
              /\ pc \in {"check_clean", "exited", "crashed"}
              /\ manifest = StripResult(runInput)
              /\ \A i \in DOMAIN Lines(manifest) : NotDirective(Lines(manifest)[i])
        /\ (pc = "exited" /\ renames = 1) => exit = "0"
        /\ exit = "0" => renames = 1

\* a clean run that removed a directive and ended with status 0, no configuration file
C8_Witness ==
    /\ clean
    /\ RanOk
    /\ config.status = "missing"
    /\ manifest # runInput
    /\ \E i \in DOMAIN Lines(runInput) : ~NotDirective(Lines(runInput)[i])

\* C9: the manifest is the original until the strip's rename, the whole
\* post-strip file from then until the append's rename, and the whole
\* post-append file after it; a failed strip leaves the original, a failed
\* append the post-strip file.
C9_CrashSafe ==
    /\ renames \in 0..2
    /\ renames = 0 => manifest = runInput
    /\ renames = 1 => manifest = StripResult(runInput)
    /\ renames = 2 => manifest = AppendResult(StripResult(runInput), replace)
    /\ failed = "strip" => renames = 0
    /\ failed = "append" => renames = 1

\* killed while the appender had written a directive to its temporary file
C9_Witness ==
    /\ pc = "crashed"
    /\ renames = 1
    /\ "append" \in executed
    /\ temp.exists
    /\ idx > 1
    /\ manifest # runInput

\* C10: a second non-clean run after a successful one, with the same
\* configuration and directories and no line break in a find or replace value,
\* does not fail validation and, when it succeeds, leaves the manifest as the
\* first run left it.
C10_PipelineIdempotent ==
    (/\ ~clean
     /\ run >= 2
     /\ prevExit = "0"
     /\ \A i \in DOMAIN config.rules :
           ~HasLineBreak(config.rules[i].Find) /\ ~HasLineBreak(config.rules[i].Replace))
    => /\ failed # "validate"
       /\ RanOk => manifest = runInput

====
